---- MODULE Spec2Model ----
(***************************************************************************)
(* Model of the backtest engine of potatotify/backtest-api                 *)
(* (src/trail_backtesting.py).                                             *)
(*                                                                         *)
(* Two specifications share the module:                                    *)
(*   Spec     simulate_trades(data, config): the per-bar trade state       *)
(*            machine.  Each loop iteration is two steps, the exit check   *)
(*            (lines 70-131) and the entry check (lines 133-143).          *)
(*   SpecSig  load_minute_data -> calculate_ema -> detect_signals on a     *)
(*            bounded input file whose rows may be in any order.           *)
(*                                                                         *)
(* Prices are integers (one unit is a fraction of a tick); every config    *)
(* drawn in Init has tick_value a multiple of tick_size, so that the true  *)
(* division of line 110 is exact, as it is for the binary fractions of     *)
(* the default config.  The EMA is kept as an exact rational.              *)
(***************************************************************************)
EXTENDS Integers, Sequences, FiniteSets, TLC

VARIABLES
    config,      \* the config dict handed to simulate_trades
    n,           \* len(data)
    bar3,        \* data.iloc[3], the row just before the loop's first index
    i,           \* loop index of simulate_trades
    row,         \* data.iloc[i] of the iteration in progress / last run
    pc,          \* position inside simulate_trades
    balance,     \* running balance
    open_trade,  \* None or the open position
    trades,      \* the ledger
    qty,         \* local qty
    tp_price,    \* local tp_price (unbound until first computed)
    sl_price,    \* local sl_price (unbound until first computed)
    metrics,     \* unbound, or the dict returned by analyze_performance
    opened,      \* history: number of positions opened so far
    excursions,  \* history: favourable-side prices (highs of a long, lows of a
                 \* short) of the bars read since the open position's entry bar
    file,        \* rows of the input CSV, in file order
    data,        \* the DataFrame of the signal pipeline, in positional order
    spc,         \* position inside the signal pipeline
    bar_times,     \* plot_trades: data['datetime'], as a set of instants
    trade_entries, \* plot_trades: trades_df['entry_time'], as a set of instants
    current_start, \* plot_trades: local current_start
    plot_idx,      \* plot_trades: local plot_idx
    rendered,      \* plot_trades: the files written, plot_idx -> window and chunk
    ppc,           \* position inside plot_trades
    serial,        \* app: the server handles one request at a time
    rpc,           \* app: position of each /run-backtest handler
    nwin,          \* app: number of chart windows of each request's data
    temp_csv,      \* app: UPLOAD_FOLDER/temp_data.csv (absent, or whose data)
    config_json,   \* app: UPLOAD_FOLDER/config.json (absent, or whose parameters)
    trades_csv,    \* app: trades.csv (absent, or the run it comes from)
    metrics_csv,   \* app: metrics.csv (absent, or the run it comes from)
    plots,         \* app: the plots folder, file index -> request whose run wrote it
    results,       \* app: what each handler read from trades.csv / metrics.csv
    chart_files,   \* app: the chart files each handler listed
    last_run       \* app: history, the request whose backtest ran last (0: none)

simVars == <<config, n, bar3, i, row, pc, balance, open_trade, trades, qty, tp_price, sl_price, metrics,
             opened, excursions>>
sigVars == <<file, data, spc>>
vars == <<config, n, bar3, i, row, pc, balance, open_trade, trades, qty, tp_price, sl_price, metrics,
          opened, excursions, file, data, spc,
          bar_times, trade_entries, current_start, plot_idx, rendered, ppc,
          serial, rpc, nwin, temp_csv, config_json, trades_csv, metrics_csv, plots,
          results, chart_files, last_run>>
plotVars == <<bar_times, trade_entries, current_start, plot_idx, rendered, ppc>>
appVars == <<serial, rpc, nwin, temp_csv, config_json, trades_csv, metrics_csv, plots,
             results, chart_files, last_run>>

(***************************************************************************)
(* Bounds                                                                  *)
(***************************************************************************)
MaxBars == 7
MaxPrice == 2
MaxRows == 5
MaxClose == 2
MaxSwaps == 1
MaxTime == 6
MaxRequests == 2
MaxWindows == 2

None == <<>>

PlotIdle ==
    /\ bar_times = {} /\ trade_entries = {} /\ current_start = None
    /\ plot_idx = 0 /\ rendered = <<>> /\ ppc = "idle"

AppIdle ==
    /\ serial = TRUE /\ rpc = <<>> /\ nwin = <<>>
    /\ temp_csv = None /\ config_json = None /\ trades_csv = None /\ metrics_csv = None
    /\ plots = <<>> /\ results = <<>> /\ chart_files = <<>> /\ last_run = 0

Max(a, b) == IF a >= b THEN a ELSE b
Min(a, b) == IF a <= b THEN a ELSE b

(***************************************************************************)
(* Inputs of simulate_trades                                               *)
(***************************************************************************)
\* CONFIG['starting_balance'] as the module is loaded
DefaultStartingBalance == 100000

AllConfigs ==
    [ starting_balance     : {20, DefaultStartingBalance},
      risk_percentage      : {1},          \* in percent
      tick_size            : {1, 2},
      tick_value           : {4},
      commission_per_trade : {1},
      slippage_ticks       : {0, 1},
      tp_ticks             : {1, 2},
      sl_ticks             : {1, 2},
      trailing_stop        : BOOLEAN,
      trailing_stop_ticks  : {1},
      contract_margin      : {50} ]

\* the coarser tick is paired with the one-tick targets the price range can
\* reach and with no slippage, so that a take-profit can be a winning trade
Configs ==
    {c \in AllConfigs :
        IF c.tick_size = 2
        THEN c.tp_ticks = 1 /\ c.sl_ticks = 1 /\ c.slippage_ticks = 0
        ELSE c.slippage_ticks = 1}

Prices == 0..MaxPrice

\* the columns of a bar that simulate_trades reads
Bars ==
    { b \in [high : Prices, low : Prices, close : Prices, signal : {-1, 0, 1}] :
        b.low <= b.close /\ b.close <= b.high }

NoRow == [datetime |-> -1, high |-> 0, low |-> 0, close |-> 0, signal |-> 0]

RowAt(k, b) ==
    [datetime |-> k, high |-> b.high, low |-> b.low, close |-> b.close, signal |-> b.signal]

(***************************************************************************)
(* simulate_trades                                                         *)
(***************************************************************************)
LoopStart == 4

MaxContractsMargin(bal, cfg) == bal \div cfg.contract_margin

MaxContractsRisk(bal, cfg) ==
    (bal * cfg.risk_percentage) \div (100 * cfg.sl_ticks * cfg.tick_value)

Qty_sized(bal, cfg) == Min(MaxContractsMargin(bal, cfg), MaxContractsRisk(bal, cfg))

Qty(bal, cfg) == 1

PositionType_typo(signal) == IF signal = 1 THEN "long" ELSE "Short"

PositionType(signal) == IF signal = 1 THEN "long" ELSE "short"

NewPosition(r, q) ==
    [ entry_time  |-> r.datetime,
      entry_price |-> r.close,
      quantity    |-> q,
      type        |-> PositionType(r.signal),
      max_price   |-> r.close,
      min_price   |-> r.close ]

TpPrice(ot, cfg) ==
    IF ot.type = "long"
    THEN ot.entry_price + cfg.tp_ticks * cfg.tick_size
    ELSE ot.entry_price - cfg.tp_ticks * cfg.tick_size

BaseSl(ot, cfg) ==
    IF ot.type = "long"
    THEN ot.entry_price - cfg.sl_ticks * cfg.tick_size
    ELSE ot.entry_price + cfg.sl_ticks * cfg.tick_size

\* the favorable-excursion price of this bar without the remembered extreme
Excursion_forgetful(ot, r) == IF ot.type = "long" THEN r.high ELSE r.low

Excursion(ot, r) ==
    IF ot.type = "long" THEN Max(ot.max_price, r.high) ELSE Min(ot.min_price, r.low)

\* the stop from the extreme remembered before this bar
SlPrice_stale(ot, r, cfg) ==
    IF ~cfg.trailing_stop
    THEN BaseSl(ot, cfg)
    ELSE IF ot.type = "long"
         THEN Max(BaseSl(ot, cfg), ot.max_price - cfg.trailing_stop_ticks * cfg.tick_size)
         ELSE Min(BaseSl(ot, cfg), ot.min_price + cfg.trailing_stop_ticks * cfg.tick_size)

SlPrice(ot, r, cfg) ==
    IF ~cfg.trailing_stop
    THEN BaseSl(ot, cfg)
    ELSE IF ot.type = "long"
         THEN Max(BaseSl(ot, cfg), Excursion(ot, r) - cfg.trailing_stop_ticks * cfg.tick_size)
         ELSE Min(BaseSl(ot, cfg), Excursion(ot, r) + cfg.trailing_stop_ticks * cfg.tick_size)

\* the extreme is tracked whether or not the trailing stop is enabled
Trail_always(ot, r, cfg) ==
    IF ot.type = "long"
    THEN [ot EXCEPT !.max_price = Excursion(ot, r)]
    ELSE [ot EXCEPT !.min_price = Excursion(ot, r)]

Trail(ot, r, cfg) ==
    IF ~cfg.trailing_stop
    THEN ot
    ELSE IF ot.type = "long"
         THEN [ot EXCEPT !.max_price = Excursion(ot, r)]
         ELSE [ot EXCEPT !.min_price = Excursion(ot, r)]

Outcome_slFirst(ot, r, tp, sl) ==
    IF ot.type = "long"
    THEN IF r.low <= sl THEN "SL" ELSE IF r.high >= tp THEN "TP" ELSE "continue"
    ELSE IF r.high >= sl THEN "SL" ELSE IF r.low <= tp THEN "TP" ELSE "continue"

Outcome(ot, r, tp, sl) ==
    IF ot.type = "long"
    THEN IF r.high >= tp THEN "TP" ELSE IF r.low <= sl THEN "SL" ELSE "continue"
    ELSE IF r.low <= tp THEN "TP" ELSE IF r.high >= sl THEN "SL" ELSE "continue"

TotalCost(cfg) == cfg.commission_per_trade + cfg.slippage_ticks * cfg.tick_value * 2

Pnl_unsigned(ot, exit_price, q, cfg) ==
    ((exit_price - ot.entry_price) * q * cfg.tick_value) \div cfg.tick_size - TotalCost(cfg)

Pnl(ot, exit_price, q, cfg) ==
    LET gross == ((exit_price - ot.entry_price) * q * cfg.tick_value) \div cfg.tick_size
    IN  (IF ot.type = "short" THEN -gross ELSE gross) - TotalCost(cfg)

TradeRecord_staleBalance(ot, r, exit_price, q, pnl, outcome, bal, sl, tp) ==
    [ entry_time          |-> ot.entry_time,
      exit_time           |-> r.datetime,
      position            |-> ot.type,
      entry_price         |-> ot.entry_price,
      exit_price          |-> exit_price,
      quantity            |-> q,
      pnl                 |-> pnl,
      exit_reason         |-> outcome,
      balance_after_trade |-> bal - pnl,
      sl_price            |-> sl,
      tp_price            |-> tp ]

TradeRecord_entryFromRow(ot, r, exit_price, q, pnl, outcome, bal, sl, tp) ==
    [ entry_time          |-> r.datetime,
      exit_time           |-> r.datetime,
      position            |-> ot.type,
      entry_price         |-> ot.entry_price,
      exit_price          |-> exit_price,
      quantity            |-> q,
      pnl                 |-> pnl,
      exit_reason         |-> outcome,
      balance_after_trade |-> bal,
      sl_price            |-> sl,
      tp_price            |-> tp ]

TradeRecord(ot, r, exit_price, q, pnl, outcome, bal, sl, tp) ==
    [ entry_time          |-> ot.entry_time,
      exit_time           |-> r.datetime,
      position            |-> ot.type,
      entry_price         |-> ot.entry_price,
      exit_price          |-> exit_price,
      quantity            |-> q,
      pnl                 |-> pnl,
      exit_reason         |-> outcome,
      balance_after_trade |-> bal,
      sl_price            |-> sl,
      tp_price            |-> tp ]

InitSim ==
    /\ config \in Configs
    /\ n \in 0..MaxBars
    /\ bar3 \in IF n > 3 THEN {RowAt(3, b) : b \in {c \in Bars : c.high = c.close /\ c.low = c.close /\ c.close = 0}}
                ELSE {NoRow}
    /\ i = LoopStart
    /\ row = NoRow
    /\ pc = "loop"
    /\ balance = config.starting_balance
    /\ open_trade = None
    /\ trades = <<>>
    /\ qty = 0
    /\ tp_price = None
    /\ sl_price = None
    /\ metrics = None
    /\ opened = 0
    /\ excursions = {}

\* lines 62-131: read data.iloc[i]; with a position open, run the exit logic
CheckExit ==
    /\ pc = "loop"
    /\ i < n
    /\ \E b \in Bars :
        LET r == RowAt(i, b)
            q0 == Qty(balance, config)
        IN  /\ row' = r
            /\ IF open_trade = None
               THEN /\ qty' = q0
                    /\ pc' = "entry"
                    /\ UNCHANGED <<i, balance, open_trade, trades, tp_price, sl_price, excursions>>
               ELSE LET ot == open_trade[1]
                        tp == TpPrice(ot, config)
                        sl == SlPrice(ot, r, config)
                        ot2 == Trail(ot, r, config)
                        outcome == Outcome(ot, r, tp, sl)
                    IN  /\ tp_price' = <<tp>>
                        /\ sl_price' = <<sl>>
                        /\ IF outcome = "continue"
                           THEN /\ open_trade' = <<ot2>>
                                /\ qty' = q0
                                /\ i' = i + 1
                                /\ pc' = "loop"
                                /\ excursions' = excursions \cup
                                      {IF ot.type = "long" THEN r.high ELSE r.low}
                                /\ UNCHANGED <<balance, trades>>
                           ELSE LET exit_price == IF outcome = "TP" THEN tp ELSE sl
                                    q == ot2.quantity
                                    pnl == Pnl(ot2, exit_price, q, config)
                                    bal == balance + pnl
                                IN  /\ qty' = q
                                    /\ balance' = bal
                                    /\ trades' = Append(trades,
                                          TradeRecord(ot2, r, exit_price, q, pnl, outcome, bal, sl, tp))
                                    /\ open_trade' = None
                                    /\ pc' = "entry"
                                    /\ excursions' = {}
                                    /\ UNCHANGED i
    /\ UNCHANGED <<config, n, bar3, metrics, opened>>
    /\ UNCHANGED <<sigVars, plotVars, appVars>>

\* lines 133-143: with no position open and a nonzero signal, open one
CheckEntry ==
    /\ pc = "entry"
    /\ IF row.signal # 0 /\ open_trade = None /\ ~(qty < 1)
       THEN /\ open_trade' = <<NewPosition(row, qty)>>
            /\ opened' = opened + 1
       ELSE UNCHANGED <<open_trade, opened>>
    /\ UNCHANGED excursions
    /\ i' = i + 1
    /\ pc' = "loop"
    /\ UNCHANGED <<config, n, bar3, row, balance, trades, qty, tp_price, sl_price, metrics>>
    /\ UNCHANGED <<sigVars, plotVars, appVars>>

\* the position still open at the end is closed at the last close
Return_closeOpen ==
    /\ pc = "loop"
    /\ i >= n
    /\ pc' = "done"
    /\ IF open_trade = None
       THEN UNCHANGED <<balance, open_trade, trades>>
       ELSE LET ot == open_trade[1]
                pnl == Pnl(ot, row.close, ot.quantity, config)
            IN  /\ balance' = balance + pnl
                /\ trades' = Append(trades,
                      TradeRecord(ot, row, row.close, ot.quantity, pnl, "END", balance + pnl,
                                  BaseSl(ot, config), TpPrice(ot, config)))
                /\ open_trade' = None
    /\ UNCHANGED <<config, n, bar3, i, row, qty, tp_price, sl_price, metrics, opened, excursions>>
    /\ UNCHANGED <<sigVars, plotVars, appVars>>

\* lines 145-146: the bar series is exhausted, the ledger is returned
Return ==
    /\ pc = "loop"
    /\ i >= n
    /\ pc' = "done"
    /\ UNCHANGED <<config, n, bar3, i, row, balance, open_trade, trades, qty, tp_price, sl_price, metrics,
                   opened, excursions>>
    /\ UNCHANGED <<sigVars, plotVars, appVars>>

(***************************************************************************)
(* analyze_performance, as run_backtest calls it on the ledger             *)
(***************************************************************************)
\* an empty dict
EmptyDict == <<>>

Indices(led) == 1..Len(led)

RECURSIVE SumOver(_, _)
\* sum of pnl over the rows whose index is in ks
SumOver(led, ks) ==
    IF ks = {} THEN 0
    ELSE LET k == CHOOSE x \in ks : TRUE IN led[k].pnl + SumOver(led, ks \ {k})

\* trades_df['pnl'].cumsum() at row k
CumulativePnl(led, k) == SumOver(led, 1..k)

\* initial_balance + cumulative_pnl at row k
CumulativeBalance(led, k, initial_balance) == initial_balance + CumulativePnl(led, k)

RECURSIVE CumMax(_, _, _)
\* trades_df['cumulative_balance'].cummax() at row k
CumMax(led, k, initial_balance) ==
    IF k = 1 THEN CumulativeBalance(led, 1, initial_balance)
    ELSE Max(CumMax(led, k - 1, initial_balance), CumulativeBalance(led, k, initial_balance))

RECURSIVE SeqMax(_, _)
\* the maximum of f[1..k]; nan for an empty series
SeqMax(f, k) ==
    IF k = 0 THEN "nan" ELSE IF k = 1 THEN f[1] ELSE Max(SeqMax(f, k - 1), f[k])

RECURSIVE SeqMin(_, _)
SeqMin(f, k) ==
    IF k = 0 THEN "nan" ELSE IF k = 1 THEN f[1] ELSE Min(SeqMin(f, k - 1), f[k])

\* drawdown measured from the initial balance instead of the running peak
MaxDrawdown_fromInitial(led, initial_balance) ==
    SeqMax([k \in Indices(led) |-> initial_balance - CumulativeBalance(led, k, initial_balance)],
           Len(led))

\* line 161
MaxDrawdown(led, initial_balance) ==
    SeqMax([k \in Indices(led) |->
               CumMax(led, k, initial_balance) - CumulativeBalance(led, k, initial_balance)],
           Len(led))

\* line 163, up to the value of a defined ratio: the sample standard deviation
\* of one return is nan (and nan != 0), that of equal returns is 0
SharpeRatio(led) ==
    IF Len(led) < 2 THEN "nan"
    ELSE IF \A k \in Indices(led) : led[k].pnl = led[1].pnl THEN "None"
    ELSE "number"

IsEmpty_never(led) == FALSE

\* trades_df.empty
IsEmpty(led) == led = <<>>

\* lines 153-176; means and percentages are exact rationals num/den
Metrics(led, initial_balance) ==
    LET wins == {k \in Indices(led) : led[k].pnl > 0}
        losses == {k \in Indices(led) : led[k].pnl < 0}
        total_pnl == SumOver(led, Indices(led))
    IN  [ total_trades      |-> Len(led),
          win_rate          |-> [num |-> Cardinality(wins), den |-> Len(led)],
          avg_win           |-> IF wins # {}
                                THEN [num |-> SumOver(led, wins), den |-> Cardinality(wins)]
                                ELSE [num |-> 0, den |-> 1],
          avg_loss          |-> IF losses # {}
                                THEN [num |-> SumOver(led, losses), den |-> Cardinality(losses)]
                                ELSE [num |-> 0, den |-> 1],
          total_pnl         |-> total_pnl,
          profit_percentage |-> [num |-> total_pnl * 100, den |-> initial_balance],
          max_drawdown      |-> MaxDrawdown(led, initial_balance),
          sharpe_ratio      |-> SharpeRatio(led),
          best_trade        |-> SeqMax([k \in Indices(led) |-> led[k].pnl], Len(led)),
          worst_trade       |-> SeqMin([k \in Indices(led) |-> led[k].pnl], Len(led)) ]

\* lines 159-160: the columns analyze_performance adds to the ledger
WithCumulative(led, initial_balance) ==
    [k \in Indices(led) |->
        led[k] @@ [ cumulative_pnl     |-> CumulativePnl(led, k),
                    cumulative_balance |-> CumulativeBalance(led, k, initial_balance) ]]

\* line 271 with lines 149-177: run_backtest passes no initial_balance, so
\* the parameter has the default bound when the function was defined
AnalyzePerformance ==
    /\ pc = "done"
    /\ IF IsEmpty(trades)
       THEN /\ metrics' = <<EmptyDict>>
            /\ UNCHANGED trades
       ELSE /\ metrics' = <<Metrics(trades, DefaultStartingBalance)>>
            /\ trades' = WithCumulative(trades, DefaultStartingBalance)
    /\ pc' = "analyzed"
    /\ UNCHANGED <<config, n, bar3, i, row, balance, open_trade, qty, tp_price, sl_price,
                   opened, excursions>>
    /\ UNCHANGED <<sigVars, plotVars, appVars>>

(***************************************************************************)
(* The signal pipeline: load_minute_data, calculate_ema, detect_signals    *)
(***************************************************************************)
Span == 9

\* swap the entries a and b of the order p
SwapAt(p, a, b) == [k \in DOMAIN p |-> IF k = a THEN p[b] ELSE IF k = b THEN p[a] ELSE p[k]]

RECURSIVE Orders(_, _)
\* the timestamp orders a file of len rows can have: ascending, with up to
\* swaps transpositions applied
Orders(len, swaps) ==
    IF swaps = 0
    THEN { [k \in 1..len |-> k] }
    ELSE LET prev == Orders(len, swaps - 1)
         IN  prev \cup { SwapAt(p, a, b) : p \in prev, a \in 1..len, b \in 1..len }

OpenClose == [open : 1..MaxClose, close : 1..MaxClose]

\* pd.read_csv: the frame gets the default index 0..len-1 in file order
ReadCsv(f) ==
    [k \in DOMAIN f |->
        [label |-> k - 1, datetime |-> f[k].datetime, open |-> f[k].open, close |-> f[k].close]]

\* DataFrame.sort_values('datetime'): rows reordered, each keeping its label
SortValues(frame) ==
    [k \in DOMAIN frame |->
        CHOOSE r \in {frame[j] : j \in DOMAIN frame} :
            Cardinality({j \in DOMAIN frame : frame[j].datetime < r.datetime}) = k - 1]

RECURSIVE Ewm(_, _)
\* close.ewm(span, adjust=False).mean() at position k, as the rational num/den:
\* y[1] = x[1], y[k] = (1 - alpha) * y[k-1] + alpha * x[k], alpha = 2 / (span + 1)
Ewm(frame, k) ==
    IF k = 1
    THEN [num |-> frame[1].close, den |-> 1]
    ELSE LET prev == Ewm(frame, k - 1)
         IN  [num |-> (Span - 1) * prev.num + 2 * prev.den * frame[k].close,
              den |-> (Span + 1) * prev.den]

BelowEma(r) == r.close * r.ema9.den < r.ema9.num
AboveEma(r) == r.close * r.ema9.den > r.ema9.num

\* data.at[lbl, 'signal'] = v: a label-based write
SetAt(frame, lbl, v) ==
    [k \in DOMAIN frame |->
        IF frame[k].label = lbl THEN [frame[k] EXCEPT !.signal = v] ELSE frame[k]]

\* one iteration of the loop of detect_signals, idx the 0-based loop index;
\* iloc[idx-3:idx] are the positions idx-2..idx, iloc[idx] is position idx+1
DetectAt(frame, idx) ==
    LET last3 == {frame[k] : k \in (idx - 2)..idx}
        current == frame[idx + 1]
        s1 == IF (\A r \in last3 : r.close < r.open) /\ (\A r \in last3 : BelowEma(r))
                 /\ AboveEma(current)
              THEN SetAt(frame, idx, 1) ELSE frame
    IN  IF (\A r \in last3 : r.close > r.open) /\ (\A r \in last3 : AboveEma(r))
           /\ BelowEma(current)
        THEN SetAt(s1, idx, -1) ELSE s1

RECURSIVE DetectFrom(_, _)
DetectFrom(frame, idx) ==
    IF idx >= Len(frame) THEN frame ELSE DetectFrom(DetectAt(frame, idx), idx + 1)

SimIdle ==
    /\ config = None /\ n = 0 /\ bar3 = NoRow /\ i = 0 /\ row = NoRow /\ pc = "idle"
    /\ balance = 0 /\ open_trade = None /\ trades = <<>> /\ qty = 0
    /\ tp_price = None /\ sl_price = None /\ metrics = None
    /\ opened = 0 /\ excursions = {}

InitSig ==
    /\ \E len \in 0..MaxRows :
         \E order \in Orders(len, MaxSwaps), oc \in [1..len -> OpenClose] :
            file = [k \in 1..len |->
                      [datetime |-> order[k], open |-> oc[k].open, close |-> oc[k].close]]
    /\ data = <<>>
    /\ spc = "file"
    /\ SimIdle /\ PlotIdle /\ AppIdle

\* lines 26-31
LoadMinuteData ==
    /\ spc = "file"
    /\ data' = SortValues(ReadCsv(file))
    /\ spc' = "loaded"
    /\ UNCHANGED file
    /\ UNCHANGED <<simVars, plotVars, appVars>>

\* lines 34-36
CalculateEma ==
    /\ spc = "loaded"
    /\ data' = [k \in DOMAIN data |->
                  [label |-> data[k].label, datetime |-> data[k].datetime,
                   open |-> data[k].open, close |-> data[k].close,
                   ema9 |-> Ewm(data, k)]]
    /\ spc' = "ema"
    /\ UNCHANGED file
    /\ UNCHANGED <<simVars, plotVars, appVars>>

\* lines 39-54
DetectSignals ==
    /\ spc = "ema"
    /\ LET zeroed == [k \in DOMAIN data |->
                        [label |-> data[k].label, datetime |-> data[k].datetime,
                         open |-> data[k].open, close |-> data[k].close,
                         ema9 |-> data[k].ema9, signal |-> 0]]
       IN  data' = DetectFrom(zeroed, 3)
    /\ spc' = "signals"
    /\ UNCHANGED file
    /\ UNCHANGED <<simVars, plotVars, appVars>>

SigIdle == file = <<>> /\ data = <<>> /\ spc = "idle"

(***************************************************************************)
(* app.py: the /run-backtest handler                                       *)
(***************************************************************************)
Requests == 1..MaxRequests

\* a handler that has returned, or has not been called yet
Inactive == {"idle", "done", "failed"}

\* plot_trades writes strategy_candles_001..N over what the folder holds
WritePlots(old, N, r) ==
    [k \in 1..Max(Len(old), N) |-> IF k <= N THEN r ELSE old[k]]

InitApp ==
    /\ serial \in BOOLEAN
    /\ rpc = [r \in Requests |-> "idle"]
    /\ nwin \in [Requests -> 0..MaxWindows]
    /\ temp_csv = None /\ config_json = None
    /\ trades_csv = None /\ metrics_csv = None
    /\ plots = <<>>
    /\ results = [r \in Requests |-> None]
    /\ chart_files = [r \in Requests |-> None]
    /\ last_run = 0
    /\ SimIdle /\ SigIdle /\ PlotIdle

\* lines 78-92: download file_url into temp_data.csv
SaveTempCsv(r) ==
    /\ rpc[r] = "idle"
    /\ serial => \A q \in Requests : rpc[q] \in Inactive
    /\ temp_csv' = <<r>>
    /\ rpc' = [rpc EXCEPT ![r] = "saved"]
    /\ UNCHANGED <<serial, nwin, config_json, trades_csv, metrics_csv, plots,
                   results, chart_files, last_run>>
    /\ UNCHANGED <<simVars, sigVars, plotVars>>

\* lines 94-101: write the parameters into config.json
WriteConfig(r) ==
    /\ rpc[r] = "saved"
    /\ config_json' = <<r>>
    /\ rpc' = [rpc EXCEPT ![r] = "configured"]
    /\ UNCHANGED <<serial, nwin, temp_csv, trades_csv, metrics_csv, plots,
                   results, chart_files, last_run>>
    /\ UNCHANGED <<simVars, sigVars, plotVars>>

\* lines 103-113: the backtest runs on whatever config.json and
\* temp_data.csv hold, and writes trades.csv, metrics.csv and the plots;
\* a run is <<whose data, whose parameters>>
RunSubprocess(r) ==
    /\ rpc[r] = "configured"
    /\ IF temp_csv = None \/ config_json = None
       THEN /\ rpc' = [rpc EXCEPT ![r] = "failed"]
            /\ UNCHANGED <<trades_csv, metrics_csv, plots, last_run>>
       ELSE /\ trades_csv' = << <<temp_csv[1], config_json[1]>> >>
            /\ metrics_csv' = << <<temp_csv[1], config_json[1]>> >>
            /\ plots' = WritePlots(plots, nwin[temp_csv[1]], r)
            /\ last_run' = r
            /\ rpc' = [rpc EXCEPT ![r] = "ran"]
    /\ UNCHANGED <<serial, nwin, temp_csv, config_json, results, chart_files>>
    /\ UNCHANGED <<simVars, sigVars, plotVars>>

\* lines 115-119: read trades.csv and metrics.csv
ReadResults(r) ==
    /\ rpc[r] = "ran"
    /\ IF trades_csv = None \/ metrics_csv = None
       THEN /\ rpc' = [rpc EXCEPT ![r] = "failed"]
            /\ UNCHANGED results
       ELSE /\ results' = [results EXCEPT
                  ![r] = <<[trades |-> trades_csv[1], metrics |-> metrics_csv[1]]>>]
            /\ rpc' = [rpc EXCEPT ![r] = "read"]
    /\ UNCHANGED <<serial, nwin, temp_csv, config_json, trades_csv, metrics_csv,
                   plots, chart_files, last_run>>
    /\ UNCHANGED <<simVars, sigVars, plotVars>>

\* lines 146-182: upload the two CSVs, list and upload the plots folder
UploadAndList(r) ==
    /\ rpc[r] = "read"
    /\ IF trades_csv = None \/ metrics_csv = None
       THEN /\ rpc' = [rpc EXCEPT ![r] = "failed"]
            /\ UNCHANGED chart_files
       ELSE /\ chart_files' = [chart_files EXCEPT ![r] = <<plots>>]
            /\ rpc' = [rpc EXCEPT ![r] = "uploaded"]
    /\ UNCHANGED <<serial, nwin, temp_csv, config_json, trades_csv, metrics_csv,
                   plots, results, last_run>>
    /\ UNCHANGED <<simVars, sigVars, plotVars>>

\* lines 202-203: an exception after the run (metrics.csv of an empty
\* ledger cannot be parsed, an upload fails) returns 500 at once
Fail(r) ==
    /\ rpc[r] \in {"ran", "read"}
    /\ rpc' = [rpc EXCEPT ![r] = "failed"]
    /\ UNCHANGED <<serial, nwin, temp_csv, config_json, trades_csv, metrics_csv,
                   plots, results, chart_files, last_run>>
    /\ UNCHANGED <<simVars, sigVars, plotVars>>

\* lines 184-200: remove the four files and the plots folder, respond
Cleanup(r) ==
    /\ rpc[r] = "uploaded"
    /\ temp_csv' = None /\ config_json' = None
    /\ trades_csv' = None /\ metrics_csv' = None
    /\ plots' = <<>>
    /\ rpc' = [rpc EXCEPT ![r] = "done"]
    /\ UNCHANGED <<serial, nwin, results, chart_files, last_run>>
    /\ UNCHANGED <<simVars, sigVars, plotVars>>

NextApp ==
    \E r \in Requests :
        \/ SaveTempCsv(r)
        \/ WriteConfig(r)
        \/ RunSubprocess(r)
        \/ ReadResults(r)
        \/ UploadAndList(r)
        \/ Fail(r)
        \/ Cleanup(r)

SpecApp == InitApp /\ [][NextApp]_vars

(***************************************************************************)
(* plot_trades                                                             *)
(***************************************************************************)
\* months_per_plot; an instant is a whole number of months
MonthsPerPlot == 3

Instants == 0..MaxTime

\* the entry times a ledger over the bars ts can hold: a position is entered
\* on a bar of index >= 4 and its trade is closed on a later bar
LedgerEntryTimes(ts) ==
    {t \in ts : Cardinality({u \in ts : u < t}) >= LoopStart /\ \E u \in ts : u > t}

\* lines 207-208: the rows of the window [lo, hi)
Chunk(S, lo, hi) == {t \in S : t >= lo /\ t < hi}

InitPlot ==
    /\ bar_times \in SUBSET Instants
    /\ trade_entries \in SUBSET LedgerEntryTimes(bar_times)
    /\ current_start = None
    /\ plot_idx = 0
    /\ rendered = <<>>
    /\ ppc = "start"
    /\ SimIdle /\ SigIdle /\ AppIdle

\* lines 195-202; min() and max() of an empty column are NaT
PlotStart ==
    /\ ppc = "start"
    /\ current_start' = IF bar_times = {} THEN None
                        ELSE <<CHOOSE t \in bar_times : \A u \in bar_times : t <= u>>
    /\ plot_idx' = 1
    /\ ppc' = "while"
    /\ UNCHANGED <<bar_times, trade_entries, rendered>>
    /\ UNCHANGED <<simVars, sigVars, appVars>>

\* the loop test of line 204; a comparison with NaT is False
PlotContinues ==
    /\ current_start # None
    /\ \E end_date \in bar_times :
          /\ \A u \in bar_times : u <= end_date
          /\ current_start[1] < end_date

\* lines 204-259: one window
PlotWindow ==
    /\ ppc = "while"
    /\ PlotContinues
    /\ LET current_end == current_start[1] + MonthsPerPlot
       IN  /\ rendered' = Append(rendered,
                 [ idx          |-> plot_idx,
                   from         |-> current_start[1],
                   to           |-> current_end,
                   chunk_data   |-> Chunk(bar_times, current_start[1], current_end),
                   chunk_trades |-> Chunk(trade_entries, current_start[1], current_end) ])
           /\ plot_idx' = plot_idx + 1
           /\ current_start' = <<current_end>>
    /\ UNCHANGED <<bar_times, trade_entries, ppc>>
    /\ UNCHANGED <<simVars, sigVars, appVars>>

\* line 261
PlotDone ==
    /\ ppc = "while"
    /\ ~PlotContinues
    /\ ppc' = "done"
    /\ UNCHANGED <<bar_times, trade_entries, current_start, plot_idx, rendered>>
    /\ UNCHANGED <<simVars, sigVars, appVars>>

NextPlot == PlotStart \/ PlotWindow \/ PlotDone

SpecPlot == InitPlot /\ [][NextPlot]_vars

Init == InitSim /\ SigIdle /\ PlotIdle /\ AppIdle

Next == CheckExit \/ CheckEntry \/ Return \/ AnalyzePerformance

Spec == Init /\ [][Next]_vars

NextSig == LoadMinuteData \/ CalculateEma \/ DetectSignals

SpecSig == InitSig /\ [][NextSig]_vars

\* the stages of run_backtest side by side, each on its own bounded inputs
InitPipeline == Init \/ InitSig

NextPipeline ==
    \/ LoadMinuteData \/ CalculateEma \/ DetectSignals
    \/ CheckExit \/ CheckEntry \/ Return \/ AnalyzePerformance

SpecPipeline == InitPipeline /\ [][NextPipeline]_vars

(***************************************************************************)
(* Properties of simulate_trades (checked under Spec)                      *)
(***************************************************************************)
SimState ==
    IF open_trade = None THEN "Flat"
    ELSE IF open_trade[1].type = "long" THEN "LongOpen"
    ELSE IF open_trade[1].type = "short" THEN "ShortOpen"
    ELSE "Invalid"

Last(led) == led[Len(led)]

RECURSIVE SumPnl(_, _)
SumPnl(led, k) == IF k = 0 THEN 0 ELSE SumPnl(led, k - 1) + led[k].pnl

\* the bar the loop has just passed: the skipped bar 3 before the first
\* iteration, data.iloc[i-1] afterwards
LastBar == IF i = LoopStart THEN bar3 ELSE row

\* C1: at most one position is open at any time, the state is always one of
\* Flat, LongOpen, ShortOpen, and a position is opened only from Flat (an
\* open position is never replaced by another one in a single step).
C1_AtMostOnePosition ==
    /\ [](Len(open_trade) <= 1 /\ SimState \in {"Flat", "LongOpen", "ShortOpen"})
    /\ [][(open_trade # None /\ open_trade' # None) =>
            /\ open_trade'[1].entry_time = open_trade[1].entry_time
            /\ open_trade'[1].entry_price = open_trade[1].entry_price
            /\ open_trade'[1].type = open_trade[1].type]_vars

\* C1 witness: a short position is open after an earlier trade was closed
C1_Witness ==
    /\ open_trade # None
    /\ open_trade[1].type = "short"
    /\ Len(trades) >= 1
    /\ trades[1].position = "long"

\* C2: every ledger row's balance_after_trade is starting_balance plus the
\* pnl of the rows up to and including it; the running balance is
\* starting_balance plus all pnl and equals the last row's balance_after_trade.
C2_BalanceIsSumOfPnl ==
    /\ \A k \in 1..Len(trades) :
          trades[k].balance_after_trade = config.starting_balance + SumPnl(trades, k)
    /\ balance = config.starting_balance + SumPnl(trades, Len(trades))
    /\ (trades # <<>> => Last(trades).balance_after_trade = balance)

\* C2 witness: the run has ended with two trades of different pnl in the ledger
C2_Witness ==
    /\ pc = "done"
    /\ Len(trades) = 2
    /\ trades[1].pnl > 0
    /\ trades[2].pnl < 0

\* C3 (as claimed): once the loop has passed a bar with a nonzero signal,
\* either an older position is still open or the position opened at that
\* bar's close is open (side by signal, quantity 1, tracker at the entry
\* price); bar 3 included.
C3_Orig ==
    (pc = "loop" /\ n > 3 /\ LastBar.signal # 0) =>
        /\ open_trade # None
        /\ \/ open_trade[1].entry_time < LastBar.datetime
           \/ open_trade[1] =
                [ entry_time  |-> LastBar.datetime,
                  entry_price |-> LastBar.close,
                  quantity    |-> 1,
                  type        |-> IF LastBar.signal = 1 THEN "long" ELSE "short",
                  max_price   |-> LastBar.close,
                  min_price   |-> LastBar.close ]

\* C4 (as claimed): no bar is both the exit bar of a trade and the entry bar
\* of a position.
C4_Orig ==
    \A k \in 1..Len(trades) :
        /\ open_trade # None => open_trade[1].entry_time # trades[k].exit_time
        /\ \A j \in 1..Len(trades) : trades[j].entry_time # trades[k].exit_time

\* C5: on a bar where the take-profit condition of the open position holds,
\* the trade is closed on that bar with reason TP at exactly tp_price, the
\* stop being hit or not; a trade closed with reason SL exits at exactly
\* sl_price on a bar where the take-profit condition does not hold.
C5_TpTakesPrecedence ==
    [][(pc = "loop" /\ i < n /\ open_trade # None) =>
        LET ot == open_trade[1]
            bar == row'
            tp == IF ot.type = "long"
                  THEN ot.entry_price + config.tp_ticks * config.tick_size
                  ELSE ot.entry_price - config.tp_ticks * config.tick_size
            tpHit == IF ot.type = "long" THEN bar.high >= tp ELSE bar.low <= tp
            closed == Len(trades') = Len(trades) + 1
        IN  /\ tpHit =>
                /\ closed
                /\ Last(trades').exit_reason = "TP"
                /\ Last(trades').exit_price = tp
                /\ Last(trades').exit_time = bar.datetime
                /\ Last(trades').entry_time = ot.entry_time
            /\ (closed /\ Last(trades').exit_reason = "SL") =>
                /\ ~tpHit
                /\ Last(trades').exit_price = Last(trades').sl_price
                /\ sl_price' = <<Last(trades').exit_price>>]_vars

\* C5 witness: a trade was just closed TP on a bar that also reached its stop
C5_Witness ==
    /\ pc = "entry"
    /\ trades # <<>>
    /\ Last(trades).exit_time = row.datetime
    /\ Last(trades).exit_reason = "TP"
    /\ \/ Last(trades).position = "long" /\ row.low <= Last(trades).sl_price
       \/ Last(trades).position = "short" /\ row.high >= Last(trades).sl_price

\* C6: with trailing_stop enabled, the stop computed for a position on a bar
\* is, for a long, not below (for a short, not above) the stop computed for
\* the same position on the bar before.
C6_TrailingStopRatchet ==
    [][(/\ pc = "loop" /\ i < n
        /\ config.trailing_stop
        /\ open_trade # None
        /\ open_trade[1].entry_time < i - 1) =>
            /\ open_trade[1].type = "long" => sl_price'[1] >= sl_price[1]
            /\ open_trade[1].type = "short" => sl_price'[1] <= sl_price[1]]_vars

\* C6 witness: a long position held over two bars whose trailing stop has
\* risen above the initial stop
C6_Witness ==
    /\ pc = "loop"
    /\ config.trailing_stop
    /\ open_trade # None
    /\ open_trade[1].type = "long"
    /\ open_trade[1].entry_time < i - 2
    /\ sl_price[1] > open_trade[1].entry_price - config.sl_ticks * config.tick_size

\* C7: every ledger row's pnl is (exit_price - entry_price) * quantity *
\* tick_value / tick_size, negated for a short, minus commission_per_trade +
\* slippage_ticks * tick_value * 2; without trailing stop a TP trade earns
\* tp_ticks * tick_value - cost and an SL trade -(sl_ticks * tick_value) - cost.
C7_PnlFormula ==
    \A k \in 1..Len(trades) :
        LET t == trades[k]
            cost == config.commission_per_trade + config.slippage_ticks * config.tick_value * 2
            sgn == IF t.position = "short" THEN -1 ELSE 1
        IN  /\ (t.pnl + cost) * config.tick_size =
                  sgn * (t.exit_price - t.entry_price) * t.quantity * config.tick_value
            /\ ~config.trailing_stop =>
                /\ t.exit_reason = "TP" => t.pnl = config.tp_ticks * config.tick_value - cost
                /\ t.exit_reason = "SL" => t.pnl = -(config.sl_ticks * config.tick_value) - cost

\* C7 witness: without trailing stop, a long TP trade followed by a short SL trade
C7_Witness ==
    /\ ~config.trailing_stop
    /\ Len(trades) = 2
    /\ trades[1].position = "long" /\ trades[1].exit_reason = "TP"
    /\ trades[2].position = "short" /\ trades[2].exit_reason = "SL"

\* C8: every open position and every ledger row has quantity 1, and the
\* contract counts never prevent an entry: once the loop has passed a bar
\* with a nonzero signal a position is open, whatever the balance.
C8_QuantityAlwaysOne ==
    /\ open_trade # None => open_trade[1].quantity = 1
    /\ \A k \in 1..Len(trades) : trades[k].quantity = 1
    /\ (pc = "loop" /\ i > LoopStart /\ row.signal # 0) => open_trade # None

\* C8 witness: a position was opened while the balance was below
\* contract_margin and both contract counts were 0
C8_Witness ==
    /\ open_trade # None
    /\ open_trade[1].entry_time = row.datetime
    /\ balance < config.contract_margin
    /\ balance \div config.contract_margin = 0
    /\ (balance * config.risk_percentage) \div (100 * config.sl_ticks * config.tick_value) = 0

(***************************************************************************)
(* Properties of the signal pipeline (checked under SpecSig)               *)
(***************************************************************************)
TimeAscending ==
    \A k \in 1..(Len(data) - 1) : data[k].datetime < data[k + 1].datetime

\* C9 (as claimed): after load_minute_data, calculate_ema and detect_signals
\* the bars at indices 0, 1 and 2 of the time-ascending series have signal 0.
C9_Orig ==
    spc = "signals" =>
        /\ TimeAscending
        /\ \A k \in 1..Min(3, Len(data)) : data[k].signal = 0

\* the signal the pattern of bars k-3..k (positions of the time-ascending
\* series, k the 1-based position) calls for
PatternSignal(k) ==
    LET prev == {data[j] : j \in (k - 3)..(k - 1)}
        lt(r) == r.close * r.ema9.den < r.ema9.num
        gt(r) == r.close * r.ema9.den > r.ema9.num
    IN  IF (\A r \in prev : r.close < r.open /\ lt(r)) /\ gt(data[k]) THEN 1
        ELSE IF (\A r \in prev : r.close > r.open /\ gt(r)) /\ lt(data[k]) THEN -1
        ELSE 0

\* C10 (as claimed): for every index i >= 3 of the time-ascending series,
\* signal(i) is +1, -1 or 0 exactly as the pattern of bars i-3..i calls for.
C10_Orig ==
    spc = "signals" =>
        /\ TimeAscending
        /\ \A k \in 4..Len(data) : data[k].signal = PatternSignal(k)

(***************************************************************************)
(* Properties of analyze_performance (checked under Spec / SpecPipeline)   *)
(***************************************************************************)
\* C11 (as claimed): profit_percentage is 100 * total_pnl / starting_balance
\* for the configured starting_balance, and the analyzer's cumulative balance
\* of every ledger row is that row's balance_after_trade.
C11_Orig ==
    (pc = "analyzed" /\ trades # <<>>) =>
        /\ metrics[1].profit_percentage.num * config.starting_balance =
              100 * SumPnl(trades, Len(trades)) * metrics[1].profit_percentage.den
        /\ \A k \in 1..Len(trades) :
              trades[k].cumulative_balance = trades[k].balance_after_trade

\* C12: for a non-empty ledger max_drawdown is the largest drop of the
\* cumulative balance from any earlier-or-same row's value to a row's value
\* (the maximum of running peak minus cumulative balance), and it is >= 0.
C12_MaxDrawdown ==
    (pc = "analyzed" /\ trades # <<>>) =>
        LET dd == metrics[1].max_drawdown
            rows == 1..Len(trades)
        IN  /\ dd >= 0
            /\ \E k \in rows : \E j \in 1..k :
                  dd = trades[j].cumulative_balance - trades[k].cumulative_balance
            /\ \A k \in rows : \A j \in 1..k :
                  trades[j].cumulative_balance - trades[k].cumulative_balance <= dd

\* C12 witness: a winning trade followed by a losing one, the drawdown being
\* the loss from the peak
C12_Witness ==
    /\ pc = "analyzed"
    /\ Len(trades) = 2
    /\ trades[1].pnl > 0
    /\ trades[2].pnl < 0
    /\ metrics[1].max_drawdown = -trades[2].pnl

\* C13: with fewer than 4 bars detect_signals leaves every signal 0,
\* simulate_trades never reaches the entry check, opens no position and
\* returns an empty ledger, and analyze_performance returns an empty dict.
C13_FewerThanFourBars ==
    /\ (spc = "signals" /\ Len(data) < 4) => \A k \in 1..Len(data) : data[k].signal = 0
    /\ (pc \in {"loop", "entry", "done", "analyzed"} /\ n < 4) =>
          /\ pc # "entry"
          /\ open_trade = None
          /\ trades = <<>>
          /\ balance = config.starting_balance
    /\ (pc = "analyzed" /\ n < 4) => DOMAIN metrics[1] = {}

\* C13 witness: a run over 3 bars has been analysed
C13_Witness ==
    /\ pc = "analyzed"
    /\ n = 3
    /\ trades = <<>>
    /\ DOMAIN metrics[1] = {}

(***************************************************************************)
(* Further properties of simulate_trades (checked under Spec)              *)
(***************************************************************************)
SetMax(S) == CHOOSE x \in S : \A y \in S : y <= x
SetMin(S) == CHOOSE x \in S : \A y \in S : x <= y

\* the stop of position ot on bar, per the claimed formula: the fixed stop,
\* tightened under trailing_stop by the extreme of the entry price, the bars
\* seen since entry and this bar
ClaimedStop(ot, bar) ==
    LET ts == config.tick_size
    IN  IF ot.type = "long"
        THEN IF config.trailing_stop
             THEN Max(ot.entry_price - config.sl_ticks * ts,
                      SetMax({ot.entry_price} \cup excursions \cup {bar.high})
                        - config.trailing_stop_ticks * ts)
             ELSE ot.entry_price - config.sl_ticks * ts
        ELSE IF config.trailing_stop
             THEN Min(ot.entry_price + config.sl_ticks * ts,
                      SetMin({ot.entry_price} \cup excursions \cup {bar.low})
                        + config.trailing_stop_ticks * ts)
             ELSE ot.entry_price + config.sl_ticks * ts

ClaimedTpHit(ot, bar) ==
    IF ot.type = "long"
    THEN bar.high >= ot.entry_price + config.tp_ticks * config.tick_size
    ELSE bar.low <= ot.entry_price - config.tp_ticks * config.tick_size

ClaimedSlHit(ot, bar) ==
    IF ot.type = "long" THEN bar.low <= ClaimedStop(ot, bar) ELSE bar.high >= ClaimedStop(ot, bar)

\* C14: on a bar where neither the TP nor the SL condition of the open
\* position holds, the position's side, entry_time, entry_price and quantity,
\* the balance and the ledger are unchanged whatever the bar's signal, and no
\* entry check follows; only the favorable-excursion price may change, and
\* only when trailing_stop is enabled.
C14_HoldFrame ==
    [][(/\ pc = "loop" /\ i < n
        /\ open_trade # None
        /\ ~ClaimedTpHit(open_trade[1], row')
        /\ ~ClaimedSlHit(open_trade[1], row')) =>
            /\ open_trade' # None
            /\ open_trade'[1].type = open_trade[1].type
            /\ open_trade'[1].entry_time = open_trade[1].entry_time
            /\ open_trade'[1].entry_price = open_trade[1].entry_price
            /\ open_trade'[1].quantity = open_trade[1].quantity
            /\ balance' = balance
            /\ trades' = trades
            /\ pc' = "loop" /\ i' = i + 1
            /\ open_trade[1].type = "long" => open_trade'[1].min_price = open_trade[1].min_price
            /\ open_trade[1].type = "short" => open_trade'[1].max_price = open_trade[1].max_price
            /\ ~config.trailing_stop => open_trade' = open_trade]_vars

\* C14 witness: a long position has been held through a bar with a short signal
C14_Witness ==
    /\ pc = "loop"
    /\ open_trade # None
    /\ open_trade[1].type = "long"
    /\ row.datetime = i - 1
    /\ open_trade[1].entry_time < row.datetime
    /\ row.signal = -1

\* C15: with trailing_stop enabled the stop tested on a bar, and recorded as
\* sl_price in the ledger on the exit bar, is max(entry_price - sl_ticks *
\* tick_size, M - trailing_stop_ticks * tick_size) for a long, M the maximum
\* of entry_price and the highs of the bars after entry up to this bar (the
\* mirror image with lows for a short); this bar's extreme counts for this
\* bar's exit check.
C15_TrailingStopValue ==
    [][(pc = "loop" /\ i < n /\ open_trade # None /\ config.trailing_stop) =>
        LET ot == open_trade[1]
            stop == ClaimedStop(ot, row')
            closed == Len(trades') = Len(trades) + 1
        IN  /\ sl_price' = <<stop>>
            /\ closed => Last(trades').sl_price = stop
            /\ (~ClaimedTpHit(ot, row') /\ ClaimedSlHit(ot, row')) =>
                  /\ closed
                  /\ Last(trades').exit_reason = "SL"
                  /\ Last(trades').exit_price = stop
            /\ (~ClaimedTpHit(ot, row') /\ ~ClaimedSlHit(ot, row')) => ~closed]_vars

\* C15 witness: a long was stopped out on the first bar after entry at a stop
\* that this very bar's high had raised above the fixed stop
C15_Witness ==
    /\ pc = "entry"
    /\ config.trailing_stop
    /\ trades # <<>>
    /\ Last(trades).position = "long"
    /\ Last(trades).exit_reason = "SL"
    /\ Last(trades).exit_time = row.datetime
    /\ Last(trades).exit_time = Last(trades).entry_time + 1
    /\ row.high > Last(trades).entry_price
    /\ Last(trades).sl_price = row.high - config.trailing_stop_ticks * config.tick_size
    /\ Last(trades).sl_price > Last(trades).entry_price - config.sl_ticks * config.tick_size

\* C17: a position still open when the series is exhausted adds no ledger
\* row and changes no balance; every ledger row was closed by TP or SL, and
\* the ledger has as many rows as positions were opened, less the one still
\* open.
C17_OpenAtEndDropped ==
    /\ [](/\ \A k \in 1..Len(trades) : trades[k].exit_reason \in {"TP", "SL"}
          /\ Len(trades) = opened - (IF open_trade # None THEN 1 ELSE 0)
          /\ pc \in {"done", "analyzed"} =>
                /\ Len(trades) \in {opened - 1, opened}
                /\ balance = config.starting_balance + SumPnl(trades, Len(trades)))
    /\ [][(pc = "loop" /\ i >= n) =>
            /\ Len(trades') = Len(trades)
            /\ balance' = balance
            /\ open_trade' = open_trade]_vars

\* C17 witness: the run ended with one closed trade and a second position
\* still open
C17_Witness ==
    /\ pc = "done"
    /\ open_trade # None
    /\ opened = 2
    /\ Len(trades) = 1

\* C18: every ledger row has entry_time < exit_time, and a row's exit_time
\* is not after the next row's entry_time.
C18_Chronological ==
    \A k \in 1..Len(trades) :
        /\ trades[k].entry_time < trades[k].exit_time
        /\ k < Len(trades) => trades[k].exit_time <= trades[k + 1].entry_time

\* C18 witness: two trades, the second entered on the bar the first exited
C18_Witness ==
    /\ Len(trades) = 2
    /\ trades[1].exit_time = trades[2].entry_time
    /\ trades[2].entry_time < trades[2].exit_time

(***************************************************************************)
(* Properties of plot_trades (checked under SpecPlot)                      *)
(***************************************************************************)
\* C16 (as claimed): when plot_trades is done its windows are consecutive
\* and non-overlapping, and every bar of the series, the latest included,
\* and every ledger trade's entry falls in exactly one rendered window.
C16_Orig ==
    ppc = "done" =>
        /\ \A k \in 1..(Len(rendered) - 1) : rendered[k].to = rendered[k + 1].from
        /\ \A t \in bar_times :
              Cardinality({k \in 1..Len(rendered) : t \in rendered[k].chunk_data}) = 1
        /\ \A t \in trade_entries :
              Cardinality({k \in 1..Len(rendered) : t \in rendered[k].chunk_trades}) = 1

(***************************************************************************)
(* Properties of the /run-backtest handler (checked under SpecApp)         *)
(***************************************************************************)
\* C19 (as claimed): whatever the interleaving of two handlers, the trades
\* and metrics a handler read, and the ones it responds with, were computed
\* from that request's own data and that request's own parameters.
C19_Orig ==
    \A r \in Requests :
        results[r] # None =>
            /\ results[r][1].trades = <<r, r>>
            /\ results[r][1].metrics = <<r, r>>

\* C20 (as claimed): with requests handled one after another, failed ones
\* included, right after a run the plots folder holds exactly that run's
\* files 001..N, and the chart files listed for a request were all written
\* by that request's own run.
C20_Orig ==
    serial =>
        /\ \A r \in Requests :
              (last_run = r /\ rpc[r] = "ran") => plots = [k \in 1..nwin[r] |-> r]
        /\ \A r \in Requests :
              chart_files[r] # None =>
                  \A k \in 1..Len(chart_files[r][1]) : chart_files[r][1][k] = r

====
